---- MODULE Spec2Model ----
(***************************************************************************)
(* The forecast-feature pipeline of src/preprocessing/pipeline.py as a     *)
(* state machine: the module-level statements (lines 315-325) run the      *)
(* stages one after the other on the table df_forecast and write it once.  *)
(*                                                                         *)
(* A table is a sequence of rows (the positional order of the DataFrame);  *)
(* a row is a record of its columns plus idx, the pandas index label.      *)
(* Floating-point columns are exact rationals extended with NaN, +inf and  *)
(* -inf, with the IEEE results of a division by zero; rounding is not      *)
(* modelled.  Dates are day ordinals, day 1 being 2019-01-01.              *)
(***************************************************************************)
EXTENDS Integers, Sequences, FiniteSets, TLC

VARIABLES
    pc,               \* the module-level statement about to run
    df,               \* df_forecast
    raw_file,         \* data/raw/ibes-forecasts.parquet
    experience_file,  \* data/processed/analyst_experience.parquet
    linking_file,     \* data/processed/sic_linking_table.parquet
    completed,        \* the statements that have returned, in order
    output,           \* data/processed/ibes-forecasts_collapsed.parquet
    writes            \* number of times the output file was written

vars == <<pc, df, raw_file, experience_file, linking_file, completed, output, writes>>

----------------------------------------------------------------------------
(* Numbers: float64 values as exact rationals n/d (d > 0, lowest terms)    *)
(* or one of NaN, +inf, -inf.                                              *)

Abs(x) == IF x < 0 THEN -x ELSE x

RECURSIVE GCD(_, _)
GCD(a, b) == IF b = 0 THEN a ELSE GCD(b, a % b)

Q(n, d) ==
    LET g == GCD(Abs(n), d)
    IN  [k |-> "fin", n |-> n \div g, d |-> d \div g]

NaN  == [k |-> "nan",  n |-> 0, d |-> 1]
PInf == [k |-> "pinf", n |-> 0, d |-> 1]
NInf == [k |-> "ninf", n |-> 0, d |-> 1]

IsNa(x)     == x.k = "nan"
IsFinite(x) == x.k = "fin"

FAdd(a, b) == Q(a.n * b.d + b.n * a.d, a.d * b.d)
FSub(a, b) == Q(a.n * b.d - b.n * a.d, a.d * b.d)
FAbs(a)    == Q(Abs(a.n), a.d)
FLess(a, b) == a.n * b.d < b.n * a.d

\* a / b for finite a, b: x/0 is +inf or -inf by the sign of x, 0/0 is NaN
FDiv(a, b) ==
    IF b.n = 0
    THEN IF a.n = 0 THEN NaN ELSE IF a.n > 0 THEN PInf ELSE NInf
    ELSE IF b.n > 0 THEN Q(a.n * b.d, a.d * b.n)
                    ELSE Q(-(a.n * b.d), a.d * (-b.n))

RECURSIVE FSum(_)
FSum(s) == IF s = <<>> THEN Q(0, 1) ELSE FAdd(Head(s), FSum(Tail(s)))

\* 'mean' of a non-empty sequence of finite numbers
FMean(s) == FDiv(FSum(s), Q(Len(s), 1))

RECURSIVE ISum(_)
ISum(s) == IF s = <<>> THEN 0 ELSE Head(s) + ISum(Tail(s))

----------------------------------------------------------------------------
(* Calendar: pd.Series.dt.year of a day ordinal (2020 is a leap year).     *)

YearOf(day) ==
    IF day <= 0 THEN 2018
    ELSE IF day <= 365 THEN 2019
    ELSE IF day <= 731 THEN 2020
    ELSE IF day <= 1096 THEN 2021
    ELSE IF day <= 1461 THEN 2022
    ELSE 2023

Dec31(year) ==
    CASE year = 2019 -> 365
      [] year = 2020 -> 731
      [] year = 2021 -> 1096
      [] year = 2022 -> 1461
      [] year = 2023 -> 1826

----------------------------------------------------------------------------
(* DataFrame helpers.                                                      *)

\* groupby(...)[col] (as on line 133): the column col(r) of the rows of t that
\* are in the group of row r0
GroupCol(t, r0, same(_, _), col(_)) ==
    LET g == SelectSeq(t, LAMBDA r : same(r0, r))
    IN  [i \in 1..Len(g) |-> col(g[i])]

\* a fresh RangeIndex 0..n-1, as pd.merge gives its result
ResetIndex(t) == [i \in 1..Len(t) |-> [t[i] EXCEPT !.idx = i - 1]]

RECURSIVE Concat(_)
Concat(ss) == IF ss = <<>> THEN <<>> ELSE Head(ss) \o Concat(Tail(ss))

Range(s) == {s[i] : i \in 1..Len(s)}

\* lexicographic order on tuples of integers of one length
RECURSIVE LexLess(_, _)
LexLess(a, b) ==
    /\ a # <<>>
    /\ \/ Head(a) < Head(b)
       \/ Head(a) = Head(b) /\ LexLess(Tail(a), Tail(b))

\* the group keys of a groupby, in the sorted order groupby gives its result
RECURSIVE SortedKeys(_)
SortedKeys(S) ==
    IF S = {} THEN <<>>
    ELSE LET m == CHOOSE x \in S : \A y \in S \ {x} : LexLess(x, y)
         IN  <<m>> \o SortedKeys(S \ {m})

\* integers in ascending order
RECURSIVE Insert(_, _)
Insert(x, s) ==
    IF s = <<>> THEN <<x>>
    ELSE IF x <= Head(s) THEN <<x>> \o s
         ELSE <<Head(s)>> \o Insert(x, Tail(s))

RECURSIVE SortInts(_)
SortInts(s) == IF s = <<>> THEN <<>> ELSE Insert(Head(s), SortInts(Tail(s)))

\* pd.merge(left, right, how='left') (lines 130, 188, 236): every left row,
\* in order, once per matching right row (in right order) with the right
\* columns attached, or once with nulls when nothing matches; the result has
\* a fresh index
MergeLeft(left, right, match(_, _), cols(_), nulls) ==
    LET one(l) ==
            LET ms == SelectSeq(right, LAMBDA m : match(l, m))
            IN  IF ms = <<>> THEN <<l @@ nulls>>
                ELSE [j \in 1..Len(ms) |-> l @@ cols(ms[j])]
    IN  ResetIndex(Concat([i \in 1..Len(left) |-> one(left[i])]))

----------------------------------------------------------------------------
(* preprocessing_ibes.  The raw columns kept are ticker, analys,           *)
(* estimator, value, actual, fpedats, anndats; the others are carried      *)
(* through the pipeline untouched and are left out.                        *)

MinHorizonDays == 30
MaxHorizonDays == 365
IncompleteYear == 2023

\* the window with both ends included
HorizonKeptInclusive(h) == h >= MinHorizonDays /\ h <= MaxHorizonDays

\* line 82: the horizon window, both bounds strict
HorizonKept(h) == h > MinHorizonDays /\ h < MaxHorizonDays

SameRevisionGroup(a, b) ==
    a.analys = b.analys /\ a.ticker = b.ticker /\ a.fpedats = b.fpedats

preprocessing_ibes(t) ==
    LET \* #2 dropna on actual, then on value
        nonnull == SelectSeq(SelectSeq(t, LAMBDA r : ~IsNa(r.actual)),
                             LAMBDA r : ~IsNa(r.value))
        \* #3 the years, #4.1 the horizon
        dated == [i \in 1..Len(nonnull) |->
                    nonnull[i] @@
                    [forecast_announce_year |-> YearOf(nonnull[i].anndats),
                     fiscal_year            |-> YearOf(nonnull[i].fpedats),
                     forecast_horizon       |-> nonnull[i].fpedats - nonnull[i].anndats]]
        inwin == SelectSeq(dated, LAMBDA r : HorizonKept(r.forecast_horizon))
        \* #4.1.1 the mean horizon of the revision group, in whole days
        meanh(r) ==
            LET hs == GroupCol(inwin, r, SameRevisionGroup, LAMBDA x : x.forecast_horizon)
            IN  ISum(hs) \div Len(hs)
        \* #4.2
        not23 == SelectSeq(inwin, LAMBDA r : r.fiscal_year # IncompleteYear)
    IN  \* #5 rename
        [i \in 1..Len(not23) |->
            LET r == not23[i]
            IN  [idx                        |-> r.idx,
                 ibes_ticker_pk             |-> r.ticker,
                 analyst                    |-> r.analys,
                 estimator                  |-> r.estimator,
                 estimated_eps              |-> r.value,
                 actual_eps                 |-> r.actual,
                 fiscal_period_ending       |-> r.fpedats,
                 announce_date              |-> r.anndats,
                 forecast_announce_year     |-> r.forecast_announce_year,
                 fiscal_year                |-> r.fiscal_year,
                 forecast_horizon           |-> r.forecast_horizon,
                 mean_forecast_horizon_days |-> meanh(r)]]

----------------------------------------------------------------------------
(* calculate_pmafe.                                                        *)

GrainKey(r) == <<r.ibes_ticker_pk, r.analyst, r.fiscal_period_ending>>

SameFirmPeriod(a, b) ==
    /\ a.ibes_ticker_pk = b.ibes_ticker_pk
    /\ a.fiscal_period_ending = b.fiscal_period_ending

\* line 126
AbsoluteForecastError(r) == FAbs(FSub(r.estimated_eps, r.actual_eps))

\* the benchmark taken over the analysts' means instead of over the rows
FirmPeriodMeanOfAnalystMeans(t, r) ==
    LET g == SelectSeq(t, LAMBDA x : SameFirmPeriod(r, x))
        analysts == SortedKeys({<<g[i].analyst>> : i \in 1..Len(g)})
    IN  FMean([j \in 1..Len(analysts) |->
            (CHOOSE x \in Range(g) : x.analyst = analysts[j][1]).afe_analyst_ijt_mean])

\* line 133: the firm-period benchmark, the mean over the group's rows
FirmPeriodMean(t, r) ==
    FMean(GroupCol(t, r, SameFirmPeriod, LAMBDA x : x.afe_analyst_i))

\* the difference taken the other way round
PmafeReversed(analyst_mean, firm_mean) == FDiv(FSub(firm_mean, analyst_mean), firm_mean)

\* line 136
Pmafe(analyst_mean, firm_mean) == FDiv(FSub(analyst_mean, firm_mean), firm_mean)

\* no dropna
KeepAllRows(t) == t

\* step 4 of the docstring carried out: firm-periods with one analyst go too
DropNaAndSingleAnalyst(t) ==
    SelectSeq(t, LAMBDA r :
        /\ ~IsNa(r.pmafe)
        /\ \E i \in 1..Len(t) : SameFirmPeriod(r, t[i]) /\ t[i].analyst # r.analyst)

\* line 138: dropna(subset=['pmafe']) drops NaN and keeps +inf and -inf
DropNaPmafe(t) == SelectSeq(t, LAMBDA r : ~IsNa(r.pmafe))

calculate_pmafe(t) ==
    LET \* Step 1
        witherr == [i \in 1..Len(t) |-> t[i] @@ [afe_analyst_i |-> AbsoluteForecastError(t[i])]]
        keys == SortedKeys({GrainKey(witherr[i]) : i \in 1..Len(witherr)})
        df_grouped == [j \in 1..Len(keys) |->
            [key |-> keys[j],
             afe_analyst_ijt_mean |->
                FMean(LET g == SelectSeq(witherr, LAMBDA r : GrainKey(r) = keys[j])
                      IN  [i \in 1..Len(g) |-> g[i].afe_analyst_i])]]
        merged == MergeLeft(witherr, df_grouped,
                            LAMBDA l, m : GrainKey(l) = m.key,
                            LAMBDA m : [afe_analyst_ijt_mean |-> m.afe_analyst_ijt_mean],
                            [afe_analyst_ijt_mean |-> NaN])
        \* Step 2
        withfirm == [i \in 1..Len(merged) |->
                        merged[i] @@ [afe_firm_jt_mean |-> FirmPeriodMean(merged, merged[i])]]
        \* Step 3
        withpmafe == [i \in 1..Len(withfirm) |->
                        withfirm[i] @@
                        [pmafe |-> Pmafe(withfirm[i].afe_analyst_ijt_mean,
                                         withfirm[i].afe_firm_jt_mean)]]
    IN  DropNaPmafe(withpmafe)

----------------------------------------------------------------------------
(* collapse_processed_df.                                                  *)

SameAnalystFirmYear(a, b) ==
    /\ a.analyst = b.analyst
    /\ a.ibes_ticker_pk = b.ibes_ticker_pk
    /\ a.fiscal_year = b.fiscal_year

\* the analyst left out of the groupby columns
CollapseKeyWithoutAnalyst(r) == <<r.ibes_ticker_pk, r.fiscal_period_ending>>

\* line 166: the groupby columns of the collapse
CollapseKey(r) == <<r.ibes_ticker_pk, r.analyst, r.fiscal_period_ending>>

\* the last row with the least horizon instead of the first
IdxMinLast(g) ==
    LET i == CHOOSE i \in 1..Len(g) :
                /\ \A j \in 1..Len(g) : g[i].forecast_horizon <= g[j].forecast_horizon
                /\ \A j \in (i + 1)..Len(g) : g[j].forecast_horizon > g[i].forecast_horizon
    IN  g[i].idx

\* idxmin of forecast_horizon over the non-empty group g: the index label of
\* the first row, in table order, that has the least horizon
IdxMin(g) ==
    LET i == CHOOSE i \in 1..Len(g) :
                /\ \A j \in 1..Len(g) : g[i].forecast_horizon <= g[j].forecast_horizon
                /\ \A j \in 1..(i - 1) : g[j].forecast_horizon > g[i].forecast_horizon
    IN  g[i].idx

\* df.loc[labels]: for every label in turn, the rows that carry it
Loc(t, labels) ==
    Concat([j \in 1..Len(labels) |-> SelectSeq(t, LAMBDA r : r.idx = labels[j])])

collapse_processed_df(t) ==
    LET \* line 163
        withmean == [i \in 1..Len(t) |->
            t[i] @@ [mean_estimate_ijt |->
                FMean(GroupCol(t, t[i], SameAnalystFirmYear, LAMBDA x : x.estimated_eps))]]
        keys == SortedKeys({CollapseKey(withmean[i]) : i \in 1..Len(withmean)})
        \* line 166
        min_forecast == [j \in 1..Len(keys) |->
            IdxMin(SelectSeq(withmean, LAMBDA r : CollapseKey(r) = keys[j]))]
    IN  \* line 167
        Loc(withmean, min_forecast)

----------------------------------------------------------------------------
(* analyst_experience.                                                     *)

\* the year left out of the join columns
ExperienceMatchOnAnalyst(l, m) == l.analyst = m.analyst

\* line 188: the join columns of the experience merge
ExperienceMatch(l, m) == l.analyst = m.analyst /\ l.forecast_announce_year = m.year

\* line 191: np.log(x) if x != 0 else 0.  A logarithm that is not rational is
\* kept as the term ln(n/d); NaN != 0 holds and np.log(NaN) is NaN
ExperienceLog(x) ==
    IF IsNa(x) THEN NaN
    ELSE IF x.n = 0 THEN Q(0, 1)
    ELSE IF x.n = x.d THEN Q(0, 1)
    ELSE IF x.n < 0 THEN NaN
    ELSE [k |-> "ln", n |-> x.n, d |-> x.d]

analyst_experience(t, experience) ==
    LET merged == MergeLeft(t, experience, ExperienceMatch,
                            LAMBDA m : [experience |-> m.experience],
                            [experience |-> NaN])
        renamed == [i \in 1..Len(merged) |->
            LET r == merged[i]
            IN  [c \in (DOMAIN r \ {"experience"}) \cup
                       {"general_analyst_experience", "general_analyst_experience_log"} |->
                    IF c = "general_analyst_experience" THEN r.experience
                    ELSE IF c = "general_analyst_experience_log" THEN ExperienceLog(r.experience)
                    ELSE r[c]]]
    IN  SelectSeq(renamed, LAMBDA r : ~IsNa(r.general_analyst_experience))

----------------------------------------------------------------------------
(* brokerage.                                                              *)

QuantilePercent == 90

SameYearBroker(a, b) == a.fiscal_year = b.fiscal_year /\ a.estimator = b.estimator

SameFiscalYear(a, b) == a.fiscal_year = b.fiscal_year

\* Series.quantile(q) with linear interpolation, of a non-empty sequence of
\* integers: the value at position q * (n - 1) of the sorted values
Quantile(values, percent) ==
    LET s   == SortInts(values)
        pos == percent * (Len(s) - 1)
        lo  == pos \div 100
        fr  == pos % 100
        hi  == IF fr = 0 THEN lo ELSE lo + 1
    IN  Q(100 * s[lo + 1] + fr * (s[hi + 1] - s[lo + 1]), 100)

\* line 210: the threshold of a row's fiscal year, over the rows of that year
TopThreshold(t, r) ==
    Quantile(GroupCol(t, r, SameFiscalYear, LAMBDA x : x.broker_size), QuantilePercent)

brokerage(t) ==
    LET \* line 209
        sized == [i \in 1..Len(t) |->
            t[i] @@ [broker_size |->
                Cardinality(Range(GroupCol(t, t[i], SameYearBroker, LAMBDA x : x.analyst)))]]
    IN  \* line 211
        [i \in 1..Len(sized) |->
            sized[i] @@ [top_10 |->
                IF FLess(TopThreshold(sized, sized[i]), Q(sized[i].broker_size, 1))
                THEN 1 ELSE 0]]

----------------------------------------------------------------------------
(* sic_codes.                                                              *)

\* line 236: the join columns of the linking merge
LinkingMatch(l, m) == l.ibes_ticker_pk = m.ticker

sic_codes(t, linking_table) ==
    LET merged == MergeLeft(t, linking_table, LinkingMatch,
                            LAMBDA m : [ticker |-> m.ticker, sic |-> m.sic],
                            [ticker |-> NaN, sic |-> NaN])
    IN  SelectSeq(merged, LAMBDA r : ~IsNa(r.sic))

----------------------------------------------------------------------------
(* coverage.                                                               *)

SameFirmPeriodBroker(a, b) == SameFirmPeriod(a, b) /\ a.estimator = b.estimator

SameAnalystYear(a, b) == a.analyst = b.analyst /\ a.fiscal_year = b.fiscal_year

coverage(t) ==
    [i \in 1..Len(t) |->
        t[i] @@
        [broker_coverage |->
            Len(GroupCol(t, t[i], SameFirmPeriodBroker, LAMBDA x : x.analyst)),
         analyst_portfolio_company_complexity_it |->
            Cardinality(Range(GroupCol(t, t[i], SameAnalystYear, LAMBDA x : x.ibes_ticker_pk))),
         analyst_following_jt |->
            Len(GroupCol(t, t[i], SameFirmPeriod, LAMBDA x : x.analyst)),
         analyst_portfolio_industry_complexity_it |->
            Cardinality(Range(GroupCol(t, t[i], SameAnalystYear, LAMBDA x : x.sic)))]]

----------------------------------------------------------------------------
(* surprise.                                                               *)

SameAnalystFirm(a, b) == a.analyst = b.analyst /\ a.ibes_ticker_pk = b.ibes_ticker_pk

SurpriseSortKey(r) == <<r.analyst, r.ibes_ticker_pk, r.fiscal_year>>

\* sort_values(by=[...]) on several columns is a stable sort
RECURSIVE InsertRow(_, _)
InsertRow(x, s) ==
    IF s = <<>> THEN <<x>>
    ELSE IF LexLess(SurpriseSortKey(x), SurpriseSortKey(Head(s))) THEN <<x>> \o s
         ELSE <<Head(s)>> \o InsertRow(x, Tail(s))

RECURSIVE SortRows(_)
SortRows(t) ==
    IF t = <<>> THEN <<>>
    ELSE InsertRow(t[Len(t)], SortRows(SubSeq(t, 1, Len(t) - 1)))

\* line 298
Surprise(actual_eps, mean_estimate) == FDiv(FSub(actual_eps, mean_estimate), mean_estimate)

\* line 299: groupby(...)['surprise'].shift(1) on the sorted table, aligned
\* back on the index label: the surprise of the row before r in r's series
ShiftedSurprise(sorted, r) ==
    LET g == SelectSeq(sorted, LAMBDA x : SameAnalystFirm(r, x))
        p == CHOOSE p \in 1..Len(g) : g[p].idx = r.idx
    IN  IF p = 1 THEN NaN ELSE g[p - 1].surprise

\* rank(method="first"): rows of one fiscal year ranked in table order
RankFirst(t, r) ==
    1 + Len(SelectSeq(t, LAMBDA x :
            /\ SameAnalystFirm(r, x)
            /\ \/ x.fiscal_year < r.fiscal_year
               \/ x.fiscal_year = r.fiscal_year /\ x.idx < r.idx))

\* line 302: rank(method="min") of fiscal_year within the series
Rank(t, r) ==
    1 + Len(SelectSeq(t, LAMBDA x : SameAnalystFirm(r, x) /\ x.fiscal_year < r.fiscal_year))

\* lines 307-308: dropna drops NaN and keeps +inf and -inf
DropNaSurprise(t) ==
    SelectSeq(SelectSeq(t, LAMBDA r : ~IsNa(r.surprise)), LAMBDA r : ~IsNa(r.surprise_lag))

surprise(t) ==
    LET withs == [i \in 1..Len(t) |->
            t[i] @@ [surprise |-> Surprise(t[i].actual_eps, t[i].mean_estimate_ijt)]]
        sorted == SortRows(withs)
        withlag == [i \in 1..Len(withs) |->
            withs[i] @@ [surprise_lag |->
                \* line 303
                IF Rank(withs, withs[i]) = 1 THEN Q(0, 1)
                ELSE ShiftedSurprise(sorted, withs[i])]]
    IN  DropNaSurprise(withlag)

----------------------------------------------------------------------------
(* The module-level pipeline invocation, lines 315-325.  A statement that  *)
(* raises ends the interpreter: nothing after it runs.                     *)

Statements ==
    <<"load_datasets", "preprocessing_ibes", "calculate_pmafe", "collapse_processed_df",
      "analyst_experience", "brokerage", "sic_codes", "coverage", "surprise", "to_parquet">>

Stages == SubSeq(Statements, 2, 9)

\* the exception swallowed and the table written all the same
OnRaiseWriteAnyway == "to_parquet"

\* the position reached when the statement at pc raises
OnRaise == "aborted"

Returns(stmt, next, table) ==
    /\ pc = stmt
    /\ pc' = next
    /\ df' = table
    /\ completed' = Append(completed, stmt)
    /\ UNCHANGED <<raw_file, experience_file, linking_file, output, writes>>

LoadDatasets == Returns("load_datasets", "preprocessing_ibes", raw_file)

PreprocessingIbes ==
    Returns("preprocessing_ibes", "calculate_pmafe", preprocessing_ibes(df))

CalculatePmafe ==
    Returns("calculate_pmafe", "collapse_processed_df", calculate_pmafe(df))

CollapseProcessedDf ==
    Returns("collapse_processed_df", "analyst_experience", collapse_processed_df(df))

AnalystExperience ==
    Returns("analyst_experience", "brokerage", analyst_experience(df, experience_file))

Brokerage == Returns("brokerage", "sic_codes", brokerage(df))

SicCodes == Returns("sic_codes", "coverage", sic_codes(df, linking_file))

Coverage == Returns("coverage", "surprise", coverage(df))

SurpriseStage == Returns("surprise", "to_parquet", surprise(df))

ToParquet ==
    /\ pc = "to_parquet"
    /\ pc' = "done"
    /\ output' = df
    /\ writes' = writes + 1
    /\ completed' = Append(completed, "to_parquet")
    /\ UNCHANGED <<df, raw_file, experience_file, linking_file>>

\* the statement at pc raises (a missing file or column, a full disk, ...)
Raise ==
    /\ pc \in Range(Statements)
    /\ pc' = OnRaise
    /\ df' = <<>>
    /\ UNCHANGED <<raw_file, experience_file, linking_file, completed, output, writes>>

Next ==
    \/ LoadDatasets
    \/ PreprocessingIbes
    \/ CalculatePmafe
    \/ CollapseProcessedDf
    \/ AnalystExperience
    \/ Brokerage
    \/ SicCodes
    \/ Coverage
    \/ SurpriseStage
    \/ ToParquet
    \/ Raise

----------------------------------------------------------------------------
(* Input files.                                                            *)

\* tables of at most n rows drawn from S, with the RangeIndex of a file read
Tables(S, n) == UNION {{ResetIndex(t) : t \in [1..k -> S]} : k \in 0..n}

RawRow(ticker, analys, estimator, value, actual, fpedats, horizon) ==
    [idx |-> 0, ticker |-> ticker, analys |-> analys, estimator |-> estimator,
     value |-> value, actual |-> actual, fpedats |-> fpedats, anndats |-> fpedats - horizon]

Years == 2018..2022

\* every analyst with a record for every year: experience = years since 2018
FullExperience(analysts) ==
    LET keys == SortedKeys(analysts \X Years)
    IN  [j \in 1..Len(keys) |->
            [analyst |-> keys[j][1], year |-> keys[j][2], experience |-> Q(keys[j][2] - 2018, 1)]]

\* every ticker with one industry code
FullLinking(tickers) ==
    LET keys == SortedKeys({<<x>> : x \in tickers})
    IN  [j \in 1..Len(keys) |-> [ticker |-> keys[j][1], sic |-> Q(10 * keys[j][1], 1)]]

\* before the first statement
Start ==
    /\ pc = "load_datasets"
    /\ df = <<>>
    /\ completed = <<>>
    /\ output = <<>>
    /\ writes = 0

(* Spec: one analyst-firm panel around the actual 1.1.  Firm 1, period     *)
(* 2020: revisions of analyst 1 (1.0 and 1.2 at 60 and 40 days), analyst   *)
(* 2 (1.4), and exact forecasts (1.1) of both; period 2021: analyst 1,     *)
(* off by 0.1 or exact; firm 2, period 2020: analyst 1.                    *)

MaxRows == 3

MainRows ==
    {RawRow(1, 1, 1, Q(v, 10), Q(11, 10), Dec31(2020), h) : v \in {10, 12}, h \in {40, 60}}
    \cup {RawRow(1, 2, 1, Q(14, 10), Q(11, 10), Dec31(2020), 40)}
    \cup {RawRow(1, a, 1, Q(11, 10), Q(11, 10), Dec31(2020), 40) : a \in {1, 2}}
    \cup {RawRow(1, 1, 1, Q(v, 10), Q(11, 10), Dec31(2021), 40) : v \in {10, 11}}
    \cup {RawRow(2, 1, 1, Q(12, 10), Q(11, 10), Dec31(2020), 40)}

Init ==
    /\ Start
    /\ raw_file \in Tables(MainRows, MaxRows)
    /\ experience_file = FullExperience({1, 2})
    /\ linking_file = FullLinking({1, 2})

Spec == Init /\ [][Next]_vars

(* SpecClean: the rows the cleaning stage decides on: horizons at and next *)
(* to both ends of the window, a null estimate, a null actual, a 2023      *)
(* period, and one ordinary row of another analyst.                        *)

CleanRows ==
    {RawRow(1, 1, 1, Q(10, 10), Q(11, 10), Dec31(2020), h) : h \in {30, 31, 364, 365}}
    \cup {RawRow(1, 2, 1, Q(14, 10), Q(11, 10), Dec31(2020), 40),
          RawRow(1, 1, 1, NaN, Q(11, 10), Dec31(2020), 40),
          RawRow(1, 1, 1, Q(10, 10), NaN, Dec31(2020), 40),
          RawRow(1, 1, 1, Q(10, 10), Q(11, 10), Dec31(2023), 40)}

InitClean ==
    /\ Start
    /\ raw_file \in Tables(CleanRows, MaxRows)
    /\ experience_file = FullExperience({1, 2})
    /\ linking_file = FullLinking({1})

SpecClean == InitClean /\ [][Next]_vars

(* SpecJoin: the forecasts of one analyst for one firm in two years        *)
(* against every small experience and linking file: with and without a     *)
(* record for a key, and with two records for one key.                     *)

MaxJoinRows == 2

JoinRows ==
    {RawRow(1, 1, 1, Q(10, 10), Q(11, 10), Dec31(2020), 40),
     RawRow(1, 1, 1, Q(10, 10), Q(11, 10), Dec31(2021), 40)}

ExperienceRecords ==
    {[analyst |-> 1, year |-> 2020, experience |-> Q(0, 1)],
     [analyst |-> 1, year |-> 2020, experience |-> Q(3, 1)],
     [analyst |-> 1, year |-> 2021, experience |-> Q(2, 1)]}

LinkingRecords ==
    {[ticker |-> 1, sic |-> Q(10, 1)], [ticker |-> 1, sic |-> Q(20, 1)]}

\* files of at most n records drawn from S
Files(S, n) == UNION {[1..k -> S] : k \in 0..n}

InitJoin ==
    /\ Start
    /\ raw_file \in Tables(JoinRows, MaxJoinRows)
    /\ experience_file \in Files(ExperienceRecords, MaxJoinRows)
    /\ linking_file \in Files(LinkingRecords, MaxJoinRows)

SpecJoin == InitJoin /\ [][Next]_vars

(* SpecBroker: one fiscal year of three brokerages.  Brokerage 1 employs   *)
(* analyst 1, who covers the firms 1..k; brokerages 2 and 3 employ up to   *)
(* MaxTeam analysts each, who all cover firm 1.                            *)

MaxFirms == 28

MaxTeam == 2

BrokerTable(k, team2, team3) ==
    ResetIndex(
        [i \in 1..k |-> RawRow(i, 1, 1, Q(10, 10), Q(11, 10), Dec31(2020), 40)]
        \o [i \in 1..team2 |-> RawRow(1, 1 + i, 2, Q(10, 10), Q(11, 10), Dec31(2020), 40)]
        \o [i \in 1..team3 |-> RawRow(1, 1 + MaxTeam + i, 3, Q(10, 10), Q(11, 10), Dec31(2020), 40)])

InitBroker ==
    /\ Start
    /\ raw_file \in {BrokerTable(k, team2, team3) :
                        k \in 0..MaxFirms, team2 \in 0..MaxTeam, team3 \in 0..MaxTeam}
    /\ experience_file = FullExperience(1..(1 + 2 * MaxTeam))
    /\ linking_file = FullLinking(1..(MaxFirms + 1))

SpecBroker == InitBroker /\ [][Next]_vars

(* SpecSeries: the forecasts of one analyst for one firm over the periods  *)
(* 2019-12-31 (actual 0), 2020-06-30, 2020-12-31 and 2021-12-31 (actual    *)
(* 1), with estimates of 1 and -1.                                         *)

MaxSeriesRows == 4

Jun30of2020 == Dec31(2019) + 182

SeriesRows ==
    {RawRow(1, 1, 1, Q(v, 1), Q(0, 1), Dec31(2019), 40) : v \in {1, -1}}
    \cup {RawRow(1, 1, 1, Q(v, 1), Q(1, 1), Dec31(2020), 40) : v \in {1, -1}}
    \cup {RawRow(1, 1, 1, Q(-1, 1), Q(1, 1), Jun30of2020, 40),
          RawRow(1, 1, 1, Q(-1, 1), Q(1, 1), Dec31(2021), 40)}

InitSeries ==
    /\ Start
    /\ raw_file \in Tables(SeriesRows, MaxSeriesRows)
    /\ experience_file = FullExperience({1})
    /\ linking_file = FullLinking({1})

SpecSeries == InitSeries /\ [][Next]_vars

----------------------------------------------------------------------------
(* Properties.                                                             *)

Keys(t) == {GrainKey(t[i]) : i \in 1..Len(t)}

UniqueGrain(t) == \A i, j \in 1..Len(t) : GrainKey(t[i]) = GrainKey(t[j]) => i = j

\* C1: the collapse returns one row per (ibes_ticker_pk, analyst,
\* fiscal_period_ending): no two rows share a key, the number of distinct keys
\* is the row count, and the keys after the collapse are the keys before it.
C1_CollapseOneRowPerKey ==
    [][(pc = "collapse_processed_df" /\ pc' = "analyst_experience") =>
        /\ UniqueGrain(df')
        /\ Cardinality(Keys(df')) = Len(df')
        /\ Keys(df') = Keys(df)]_vars

\* two keys are left of three rows, one key having had revisions at two horizons
C1_Witness ==
    /\ pc = "analyst_experience"
    /\ Len(raw_file) = 3
    /\ Len(df) = 2
    /\ \E i \in 1..Len(df) : df[i].mean_forecast_horizon_days # df[i].forecast_horizon

OnePerExperienceKey(f) ==
    \A i, j \in 1..Len(f) : (f[i].analyst = f[j].analyst /\ f[i].year = f[j].year) => i = j

OnePerTicker(f) == \A i, j \in 1..Len(f) : f[i].ticker = f[j].ticker => i = j

EnrichmentStages == {"analyst_experience", "brokerage", "sic_codes", "coverage", "surprise"}

\* every row of t2 is a row of t1 with its columns unchanged (the index aside)
OnlyAddsColumns(t1, t2) ==
    \A i \in 1..Len(t2) : \E j \in 1..Len(t1) :
        \A c \in DOMAIN t1[j] \ {"idx"} : c \in DOMAIN t2[i] /\ t2[i][c] = t1[j][c]

\* C2: with at most one experience record per (analyst, year) and at most one
\* linking record per ticker, each of analyst_experience, brokerage, sic_codes,
\* coverage and surprise returns a table that is still unique on the grain,
\* has no more rows than it received, and whose rows are rows it received
\* with columns added.
C2_EnrichmentKeepsGrain ==
    [][(/\ OnePerExperienceKey(experience_file)
        /\ OnePerTicker(linking_file)
        /\ pc \in EnrichmentStages
        /\ pc' # OnRaise) =>
        /\ UniqueGrain(df')
        /\ Len(df') <= Len(df)
        /\ OnlyAddsColumns(df, df')]_vars

\* both forecasts have passed both joins and the surprise stage
C2_Witness ==
    /\ pc = "to_parquet"
    /\ OnePerExperienceKey(experience_file)
    /\ OnePerTicker(linking_file)
    /\ Len(experience_file) = 2
    /\ Len(df) = 2

\* the end-to-end example: analyst 1 revises 1.0 (60 days) to 1.2 (40 days),
\* analyst 2 is off by 0.3, the actual is 1.1
ExampleRows ==
    {RawRow(1, 1, 1, Q(10, 10), Q(11, 10), Dec31(2020), 60),
     RawRow(1, 1, 1, Q(12, 10), Q(11, 10), Dec31(2020), 40),
     RawRow(1, 2, 1, Q(14, 10), Q(11, 10), Dec31(2020), 40)}

IsExample ==
    /\ Len(raw_file) = 3
    /\ {[raw_file[i] EXCEPT !.idx = 0] : i \in 1..3} = ExampleRows

\* after the collapse of the example, analyst 1 has exactly one row and it
\* has the 40-day horizon, mean estimate 1.1, error 0.1, and the given
\* benchmark and pmafe
ExampleResult(benchmark, score) ==
    (IsExample /\ pc = "analyst_experience") =>
        /\ Len(SelectSeq(df, LAMBDA r : r.analyst = 1)) = 1
        /\ \A i \in 1..Len(df) : df[i].analyst = 1 =>
            /\ df[i].forecast_horizon = 40
            /\ df[i].mean_estimate_ijt = Q(11, 10)
            /\ df[i].afe_analyst_i = Q(1, 10)
            /\ df[i].afe_firm_jt_mean = benchmark
            /\ df[i].pmafe = score

\* C3 as stated: on the example the kept row of analyst 1 has pmafe -0.5
\* against the benchmark 0.2, the mean of the two analysts' errors.
C3_ExampleAsStated == ExampleResult(Q(2, 10), Q(-1, 2))

\* C3 as amended: on the example the kept row of analyst 1 is the 40-day row
\* with mean_estimate_ijt 1.1 and afe_analyst_i 0.1, and its pmafe is -0.4
\* against the benchmark 1/6, the mean of the three rows' errors.
C3_ExamplePerRowBenchmark == ExampleResult(Q(1, 6), Q(-2, 5))

C3_Witness == IsExample /\ pc = "analyst_experience" /\ Len(df) = 2

Sign(x) ==
    CASE x.k = "pinf" -> 1
      [] x.k = "ninf" -> -1
      [] x.k = "nan"  -> 2
      [] x.k = "fin"  -> IF x.n > 0 THEN 1 ELSE IF x.n < 0 THEN -1 ELSE 0

\* C4: in the table calculate_pmafe returns, pmafe is negative, zero or
\* positive as afe_analyst_ijt_mean is below, equal to or above
\* afe_firm_jt_mean.
C4_PmafeSign ==
    pc = "collapse_processed_df" =>
        \A i \in 1..Len(df) :
            Sign(df[i].pmafe) =
                IF FLess(df[i].afe_analyst_ijt_mean, df[i].afe_firm_jt_mean) THEN -1
                ELSE IF FLess(df[i].afe_firm_jt_mean, df[i].afe_analyst_ijt_mean) THEN 1
                ELSE 0

\* a table with a better, a worse and an average analyst
C4_Witness ==
    /\ pc = "collapse_processed_df"
    /\ \E i, j, l \in 1..Len(df) :
        Sign(df[i].pmafe) = -1 /\ Sign(df[j].pmafe) = 1 /\ Sign(df[l].pmafe) = 0

\* the mean absolute error of r's (firm, period) group in the table t
GroupMeanError(t, r) ==
    FMean(GroupCol(t, r, SameFirmPeriod,
                   LAMBDA x : FAbs(FSub(x.estimated_eps, x.actual_eps))))

\* C5: calculate_pmafe removes every row of a (firm, period) group whose mean
\* error is zero, and returns no row with a null or non-finite pmafe.
C5_ZeroBenchmarkDropped ==
    [][(pc = "calculate_pmafe" /\ pc' = "collapse_processed_df") =>
        /\ \A i \in 1..Len(df) :
              GroupMeanError(df, df[i]) = Q(0, 1) =>
                  \A j \in 1..Len(df') : ~SameFirmPeriod(df[i], df'[j])
        /\ \A j \in 1..Len(df') : IsFinite(df'[j].pmafe)]_vars

\* an exact forecast's period is gone from the returned table, another stays
C5_Witness ==
    /\ pc = "collapse_processed_df"
    /\ Len(df) >= 1
    /\ \E i \in 1..Len(raw_file) :
        /\ raw_file[i].value = raw_file[i].actual
        /\ \A j \in 1..Len(df) : df[j].fiscal_period_ending # raw_file[i].fpedats

\* C6 as stated: in the table surprise returns, the row of an (analyst,
\* firm) pair with the least fiscal_year among the pair's returned rows has
\* surprise_lag 0.
C6_FirstReturnedRowZeroLag ==
    pc = "to_parquet" =>
        \A i \in 1..Len(df) :
            (\A j \in 1..Len(df) :
                SameAnalystFirm(df[i], df[j]) => df[i].fiscal_year <= df[j].fiscal_year)
            => df[i].surprise_lag = Q(0, 1)

\* C6 as amended: a row surprise returns has surprise_lag 0 when its
\* fiscal_year is the least among the rows of its (analyst, firm) pair in the
\* table surprise was given.
C6_FirstGivenRowZeroLag ==
    [][(pc = "surprise" /\ pc' = "to_parquet") =>
        \A j \in 1..Len(df') :
            (\A i \in 1..Len(df) :
                SameAnalystFirm(df[i], df'[j]) => df'[j].fiscal_year <= df[i].fiscal_year)
            => df'[j].surprise_lag = Q(0, 1)]_vars

\* two forecasts of one first fiscal year are returned with lag 0, and a
\* later one with the surprise before it as its lag
C6_Witness ==
    /\ pc = "to_parquet"
    /\ \E i, j, l \in 1..Len(df) :
        /\ i # j
        /\ df[i].fiscal_year = df[j].fiscal_year
        /\ df[i].fiscal_year < df[l].fiscal_year
        /\ df[i].surprise_lag = Q(0, 1)
        /\ df[j].surprise_lag = Q(0, 1)
        /\ df[l].surprise_lag # Q(0, 1)
        /\ \A m \in 1..Len(raw_file) : YearOf(raw_file[m].fpedats) >= df[i].fiscal_year

\* C7: no row surprise returns has a non-finite surprise or surprise_lag, and
\* none has a mean_estimate_ijt of 0.
C7_SurpriseFinite ==
    pc = "to_parquet" =>
        \A i \in 1..Len(df) :
            /\ IsFinite(df[i].surprise)
            /\ IsFinite(df[i].surprise_lag)
            /\ df[i].mean_estimate_ijt # Q(0, 1)

BrokersOf(t, year) == {t[i].estimator : i \in {j \in 1..Len(t) : t[j].fiscal_year = year}}

TopBrokersOf(t, year) ==
    {t[i].estimator : i \in {j \in 1..Len(t) : t[j].fiscal_year = year /\ t[j].top_10 = 1}}

\* C8: after brokerage, in every fiscal year the brokerages with rows flagged
\* top_10 are at most 10% of the brokerages that have rows in that year.
C8_TopDecileOfBrokerages ==
    pc = "sic_codes" =>
        \A y \in {df[i].fiscal_year : i \in 1..Len(df)} :
            10 * Cardinality(TopBrokersOf(df, y)) <= Cardinality(BrokersOf(df, y))

IsPrefix(s, t) == Len(s) <= Len(t) /\ s = SubSeq(t, 1, Len(s))

\* C10: the output is written at most once, only when load_datasets and the
\* eight stages have returned in the order of the script, and never in a run
\* in which a statement raised.
C10_WriteOnceAfterAllStages ==
    /\ writes <= 1
    /\ IsPrefix(completed, Statements)
    /\ writes = 0 => output = <<>>
    /\ writes = 1 => pc = "done" /\ completed = Statements
    /\ pc = "aborted" => writes = 0
    /\ pc = "to_parquet" => SubSeq(completed, 2, Len(completed)) = Stages

C10_Witness == pc = "done" /\ writes = 1 /\ Len(output) = 2

\* the columns of row r that row q has too
SameColumns(q, r) == \A c \in DOMAIN q : c \in DOMAIN r /\ r[c] = q[c]

\* C11: every row the collapse returns has the least forecast_horizon of its
\* (ibes_ticker_pk, analyst, fiscal_period_ending) group, and among the
\* group's rows with that horizon it is the one that comes first in the table
\* the collapse was given.
C11_CollapseKeepsFirstMinimum ==
    [][(pc = "collapse_processed_df" /\ pc' = "analyst_experience") =>
        \A k \in 1..Len(df') : \E i \in 1..Len(df) :
            /\ SameColumns(df[i], df'[k])
            /\ \A j \in 1..Len(df) : GrainKey(df[j]) = GrainKey(df[i]) =>
                /\ df[i].forecast_horizon <= df[j].forecast_horizon
                /\ j < i => df[i].forecast_horizon < df[j].forecast_horizon]_vars

\* two revisions of one key share the least horizon and differ in their
\* estimate: the collapsed table carries the estimate of the earlier one
C11_Witness ==
    /\ pc = "analyst_experience"
    /\ \E i, j \in 1..Len(raw_file) :
        /\ i < j
        /\ SameRevisionGroup(raw_file[i], raw_file[j])
        /\ raw_file[i].anndats = raw_file[j].anndats
        /\ raw_file[i].value # raw_file[j].value
        /\ \E k \in 1..Len(df) :
            /\ df[k].idx = i - 1
            /\ df[k].estimated_eps = raw_file[i].value
            /\ df[k].forecast_horizon = df[k].mean_forecast_horizon_days

\* the rows of table t in the (firm, period) group of row r
FirmPeriodRows(t, r) == SelectSeq(t, LAMBDA x : SameFirmPeriod(r, x))

OneAnalyst(t, r) == \A i \in 1..Len(t) : SameFirmPeriod(r, t[i]) => t[i].analyst = r.analyst

C13_PmafeBoundAndZeroSum ==
    pc = "collapse_processed_df" =>
        \A i \in 1..Len(df) :
            /\ IsFinite(df[i].pmafe)
            /\ ~FLess(df[i].pmafe, Q(-1, 1))
            /\ FLess(Q(0, 1), df[i].afe_firm_jt_mean)
            /\ df[i].pmafe = Q(-1, 1) <=>
                  \A j \in 1..Len(df) :
                      GrainKey(df[j]) = GrainKey(df[i]) =>
                          df[j].estimated_eps = df[j].actual_eps
            /\ FSum(GroupCol(df, df[i], SameFirmPeriod, LAMBDA x : x.pmafe)) = Q(0, 1)

\* an exact analyst at -1 beside an analyst with two revisions above 0
C13_Witness ==
    /\ pc = "collapse_processed_df"
    /\ Len(df) = 3
    /\ \E i, j, l \in 1..Len(df) :
        /\ j # l
        /\ SameFirmPeriod(df[i], df[j])
        /\ SameFirmPeriod(df[i], df[l])
        /\ df[i].pmafe = Q(-1, 1)
        /\ FLess(Q(0, 1), df[j].pmafe)
        /\ FLess(Q(0, 1), df[l].pmafe)

====
